---- MODULE Spec2Model ----
(***************************************************************************)
(* URL-mapping service of ShortURL: core/url_service.py (shorten_url,      *)
(* get_long_url, generate_md5_code) over firebase_service.py (the router   *)
(* store_url_mapping / check_url_exists / retrieve_url_mapping with the    *)
(* Firestore collection as the remote tier and the module-level dict       *)
(* url_database as the local tier).                                        *)
(*                                                                         *)
(* Python values that may be None or of a non-str type are records         *)
(* [type, val]; dict keys and stored URLs, which the code only ever        *)
(* produces as str, are TLA+ strings.  A request is run by a thread in     *)
(* steps; each step holds at most one access to a shared store.  A Remote  *)
(* call either answers or raises; a call that raises has had no effect on  *)
(* the collection.                                                         *)
(***************************************************************************)
EXTENDS Naturals, Sequences, FiniteSets, TLC

(* ----------------------------- bounds ---------------------------------- *)
\* Number of request threads of the server.
NumThreads == 2
\* Total number of shorten / resolve calls accepted in one run.
MaxCalls == 3
\* Largest length asked of generate_md5_code.
MaxLength == 34
Threads == 1..NumThreads

(* --------------------------- Python values ----------------------------- *)
None == [type |-> "NoneType", val |-> ""]
Str(s) == [type |-> "str", val |-> s]
List(s) == [type |-> "list", val |-> s]
Handle == [type |-> "CollectionReference", val |-> "shortened_urls"]

IsStr(v) == v.type = "str"

\* Python truthiness: None and the empty str are false, a handle is true.
Truthy(v) ==
    CASE v.type = "NoneType" -> FALSE
      [] v.type = "str" -> v.val # ""
      [] v.type = "list" -> v.val # ""
      [] OTHER -> TRUE

(* ------------------------------ inputs --------------------------------- *)
\* Long URLs offered to shorten.  URL_A and URL_B are two URLs whose MD5
\* hex digests share their first six digits.
URL_EMPTY == ""
URL_A == "https://example.com/347"
URL_B == "https://example.com/1155"
URL_C == "https://example.com/a"
URLS == {URL_EMPTY, URL_A, URL_B, URL_C}

\* hashlib.md5(url.encode()).hexdigest() of the URLs above.
md5_hexdigest(url) ==
    CASE url = URL_EMPTY -> "d41d8cd98f00b204e9800998ecf8427e"
      [] url = URL_A -> "ffceadf9a862ff90e2c38be357d873e9"
      [] url = URL_B -> "ffceadb7c43c4e0baa9588008e1f511d"
      [] url = URL_C -> "cd69b81ea00cc2798797293cbc92d643"

DefaultLength == 6

Min(a, b) == IF a < b THEN a ELSE b

\* Variant that slices one character further: hexdigest()[:length + 1].
generate_md5_code_inclusive(url, length) ==
    SubSeq(md5_hexdigest(url), 1, Min(length + 1, Len(md5_hexdigest(url))))

\* hexdigest()[:length]
generate_md5_code(url, length) ==
    SubSeq(md5_hexdigest(url), 1, Min(length, Len(md5_hexdigest(url))))

\* A code no modelled URL hashes to.
UNKNOWN_CODE == "abc123"
CODES == {generate_md5_code(u, DefaultLength) : u \in URLS} \cup {UNKNOWN_CODE}

\* Arguments a caller can pass to the core shorten_url / get_long_url.
ShortenArgs == {Str(u) : u \in URLS} \cup {None, List("x")}
ResolveArgs == {Str(c) : c \in CODES}

(* ------------------------------ state ---------------------------------- *)
VARIABLES
    phase,           \* "import" while the module is loading, then "serving" or "crashed"
    threaded,        \* whether the server runs requests on concurrent threads
    collection_ref,  \* firebase_service.collection_ref: None or the handle
    url_database,    \* firebase_service.url_database: dict, in insertion order
    shortened_urls,  \* documents of the Firestore collection 'shortened_urls'
    frame,           \* per thread: the call it is running and its local variables
    hist,            \* log of the completed calls, in order of completion
    ncalls,          \* number of calls accepted so far
    gen,             \* a call of generate_md5_code on its own: arguments and result
    mono             \* url_shortener.py run next to the split: its stores and results

vars == <<phase, threaded, collection_ref, url_database, shortened_urls,
          frame, hist, ncalls, gen, mono>>

(* ------------------------- the local dict ------------------------------ *)
DictKeys(d) == {d[i].key : i \in 1..Len(d)}

\* Variant of d.get(k) that is handed the key as its default: d.get(k, k).
DictGetDefault(d, k) ==
    IF k \in DictKeys(d)
    THEN Str((CHOOSE e \in {d[i] : i \in 1..Len(d)} : e.key = k).value)
    ELSE Str(k)

\* d.get(k)
DictGet(d, k) ==
    IF k \in DictKeys(d)
    THEN Str((CHOOSE e \in {d[i] : i \in 1..Len(d)} : e.key = k).value)
    ELSE None

\* Variant that keeps the dict to one entry: the new mapping replaces
\* whatever was stored.
DictSetEvicting(d, k, v) == <<[key |-> k, value |-> v]>>

\* d[k] = v : an existing key keeps its place, a new key goes last.
DictSet(d, k, v) ==
    IF k \in DictKeys(d)
    THEN [i \in 1..Len(d) |-> IF d[i].key = k THEN [key |-> k, value |-> v] ELSE d[i]]
    ELSE Append(d, [key |-> k, value |-> v])

(* ---------------------- the Firestore collection ----------------------- *)
DocIds(coll) == {d.id : d \in coll}

\* Variant that stores with collection_ref.add({...}): the document gets an id
\* of the store's choosing instead of the short code.
DocAdd(coll, id, long_url) ==
    coll \cup {[id |-> "auto" \o id, long_url |-> long_url, short_code |-> id]}

\* Variant that does not replace: when the id is taken, the mapping is stored
\* as a further document under a suffixed id.
DocSetNoOverwrite(coll, id, long_url) ==
    coll \cup {[id |-> IF id \in DocIds(coll) THEN id \o "-2" ELSE id,
                long_url |-> long_url, short_code |-> id]}

\* collection_ref.document(id).set({...}) : replaces the document.
DocSet(coll, id, long_url) ==
    {d \in coll : d.id # id}
        \cup {[id |-> id, long_url |-> long_url, short_code |-> id]}

\* ids of the documents matching where('long_url', '==', long_url)
DocWhere(coll, long_url) == {d.id : d \in {e \in coll : e.long_url = long_url}}

\* The error a failing Firestore call raises.
RemoteError == "GoogleAPICallError"

\* Variant in which the except clauses around the Firestore calls name
\* ValueError, as the first clause of initialize_firebase does.
RouterExceptValueError == "ValueError"

\* The class named by the except clauses around the Firestore calls
\* (except Exception as e).
RouterExcept == "Exception"

\* Whether "except cls" catches an exception of class e.
Catches(cls, e) == cls = "Exception" \/ cls = e

\* Variant in which an except clause around a Firestore call gives the
\* handle up (global collection_ref; collection_ref = None).
HandleDroppedAfterError(handle) == None

\* firebase_service.py, lines 100-110, 136-142, 171-178: what the except
\* clauses around the Firestore calls leave collection_ref as.  They log only;
\* no function but initialize_firebase declares the global.
HandleAfterError(handle) == handle

(* ------------------------------ frames --------------------------------- *)
\* The body of a request: whether request.is_json holds, and the value
\* request.get_json() parses from it (Malformed if it does not parse) or the
\* text request.get_data(as_text=True) returns.  NoBody is a call of the core
\* that came through no route.
NoBody == [is_json |-> FALSE, data |-> None]

IdleFrame ==
    [pc |-> "idle", route |-> "", body |-> NoBody,
     op |-> "", arg |-> None, short_code |-> "",
     it_used |-> 0, it_pos |-> 0, trace |-> <<>>, seq |-> 0, overlap |-> {},
     before |-> [url_database |-> <<>>, shortened_urls |-> {}]]

\* One storage operation issued by a call.
StoreOp(tier, op, outcome) == [tier |-> tier, op |-> op, outcome |-> outcome]

Did(f, tier, op, outcome) == [f EXCEPT !.trace = Append(@, StoreOp(tier, op, outcome))]

\* Variant of get_url whose not-found branch leaves out the status code
\* (line 177), so that Flask answers with its default status.
get_url_response_default_status(short_code, long_url) ==
    IF Truthy(long_url)
    THEN [status |-> 200,
          body |-> [short_code |-> short_code, long_url |-> long_url.val,
                    status |-> "success"]]
    ELSE [status |-> 200,
          body |-> [short_code |-> short_code, error |-> "Short code not found",
                    status |-> "error"]]

\* app.py get_url, lines 148-177: the response for the value get_long_url
\* returned.
get_url_response(short_code, long_url) ==
    IF Truthy(long_url)
    THEN [status |-> 200,
          body |-> [short_code |-> short_code, long_url |-> long_url.val,
                    status |-> "success"]]
    ELSE [status |-> 404,
          body |-> [short_code |-> short_code, error |-> "Short code not found",
                    status |-> "error"]]

\* The response of the route that made the call: handle_post lines 117-129,
\* get_url lines 148-194.  An exception of the core is answered with 500.  A
\* call that came through no route has no response.
HttpResponse(f, result, exc) ==
    CASE f.route = "handle_post" ->
           IF exc # ""
           THEN [status |-> 500, body |-> Str("Error: " \o exc)]
           ELSE [status |-> 200, body |-> result]
      [] f.route = "get_url" ->
           IF exc # ""
           THEN [status |-> 500,
                 body |-> [short_code |-> f.short_code, error |-> exc,
                           status |-> "error"]]
           ELSE get_url_response(f.short_code, result)
      [] OTHER -> [status |-> 0, body |-> None]

\* The record a finished call leaves in the log.
CallRecord(f, result, exc, served) ==
    [route |-> f.route, body |-> f.body,
     response |-> HttpResponse(f, result, exc),
     op |-> f.op, arg |-> f.arg, result |-> result, exc |-> exc,
     served |-> served, trace |-> f.trace, seq |-> f.seq, overlap |-> f.overlap,
     before |-> f.before,
     after |-> [url_database |-> url_database', shortened_urls |-> shortened_urls']]

\* The call of thread t ends: its record is logged and the thread is idle again.
Finish(t, f, result, exc, served) ==
    /\ hist' = Append(hist, CallRecord(f, result, exc, served))
    /\ frame' = [frame EXCEPT ![t] = IdleFrame]

\* The call of thread t goes on with frame f.
Continue(t, f) ==
    /\ frame' = [frame EXCEPT ![t] = f]
    /\ hist' = hist

(* ------------------------------- Init ---------------------------------- *)
\* No call of generate_md5_code on its own is under way.
NoGen == [pc |-> "none", url |-> "", length |-> 0, result |-> ""]

\* url_shortener.py is not loaded.
NoMono == [on |-> FALSE, url_database |-> <<>>, shortened_urls |-> {}, hist |-> <<>>]

InitCommon ==
    /\ phase = "import"
    /\ collection_ref = None
    /\ url_database = <<>>
    /\ shortened_urls = {}
    /\ frame = [t \in Threads |-> IdleFrame]
    /\ hist = <<>>
    /\ ncalls = 0

\* Requests are served one at a time.
Init == InitCommon /\ threaded = FALSE /\ gen = NoGen /\ mono = NoMono

\* Requests are served by concurrent threads (Flask's default).
InitConcurrent == InitCommon /\ threaded = TRUE /\ gen = NoGen /\ mono = NoMono

\* generate_md5_code is called on its own with a URL and a length.
InitGenerate ==
    /\ InitCommon
    /\ threaded = FALSE
    /\ mono = NoMono
    /\ gen \in {[pc |-> "call", url |-> u, length |-> n, result |-> ""] :
                  u \in URLS, n \in 0..MaxLength}

(* ------------------------ initialize_firebase -------------------------- *)
\* app_init: what initialize_app() does; key_file: whether the service account
\* path is set and exists; key_ok: whether Certificate / initialize_app(cred)
\* succeed; client_ok: whether firestore.client() / db.collection succeed.
initialize_firebase ==
    /\ phase = "import"
    /\ \E app_init \in {"ok", "ValueError", "OtherError"},
          key_file \in BOOLEAN, key_ok \in BOOLEAN, client_ok \in BOOLEAN :
         /\ phase' = IF app_init = "OtherError" THEN "crashed" ELSE "serving"
         /\ collection_ref' =
              IF /\ app_init = "ok" \/ (app_init = "ValueError" /\ key_file /\ key_ok)
                 /\ client_ok
              THEN Handle ELSE None
         /\ url_database' = <<>>
    /\ UNCHANGED <<mono, gen, threaded, shortened_urls, frame, hist, ncalls>>

(* --------------------------- accepting a call -------------------------- *)
\* A server that is not threaded runs every request on its one thread, and
\* the next request only when the last has been answered.
CanAccept(t) ==
    /\ phase = "serving"
    /\ frame[t].pc = "idle"
    /\ ncalls < MaxCalls
    /\ threaded \/ (t = 1 /\ \A o \in Threads : frame[o].pc = "idle")

InFlight(t) == {frame[o].seq : o \in {x \in Threads \ {t} : frame[x].pc # "idle"}}

NewFrame(t, op, arg) ==
    [IdleFrame EXCEPT !.op = op, !.arg = arg, !.seq = ncalls + 1,
        !.overlap = InFlight(t),
        !.before = [url_database |-> url_database, shortened_urls |-> shortened_urls]]

\* Thread t starts running frame f (or ends at once with record fields r);
\* the calls in flight learn that they overlap the new call.
Started(t, f) ==
    [o \in Threads |->
        IF o = t THEN f
        ELSE IF frame[o].pc # "idle"
        THEN [frame[o] EXCEPT !.overlap = @ \cup {ncalls + 1}]
        ELSE frame[o]]

(* ----------------------------- shorten_url ----------------------------- *)
\* Lines 33-45: the log call takes len(long_url) and long_url.split('/'), which
\* raise for an argument that is no str, before the try block; then the code
\* is generated and check_url_exists is entered.
ShortenCall(t, f) ==
    /\ ncalls' = ncalls + 1
    /\ IF ~IsStr(f.arg)
       THEN /\ hist' = Append(hist, CallRecord(f, None,
                          IF f.arg.type = "NoneType" THEN "TypeError"
                          ELSE "AttributeError", "none"))
            /\ frame' = Started(t, IdleFrame)
       ELSE /\ frame' = Started(t,
                  [f EXCEPT !.short_code =
                               generate_md5_code(f.arg.val, DefaultLength),
                            !.pc = IF Truthy(collection_ref)
                                   THEN "check_remote" ELSE "scan"])
            /\ hist' = hist

\* shorten_url called by a caller of the core with any argument.
shorten_url(t) ==
    /\ CanAccept(t)
    /\ UNCHANGED <<mono, gen, phase, threaded, collection_ref, url_database, shortened_urls>>
    /\ \E long_url \in ShortenArgs :
         ShortenCall(t, NewFrame(t, "shorten_url", long_url))

\* Variant of store_url_mapping without the test of line 85: the Firestore
\* write is attempted whatever collection_ref is.
StoreFirstRemote == "store_remote"

\* store_url_mapping, line 85: where a new mapping is stored first.
StoreFirst == IF Truthy(collection_ref) THEN "store_remote" ELSE "store_local"

\* Variant of shorten_url that does not look at what check_url_exists
\* returned and stores the mapping in any case.
ReturnsExistingNever(existing_short_code) == FALSE

\* shorten_url, line 49: if existing_short_code: the code found is returned
\* and nothing is stored.
ReturnsExisting(existing_short_code) == Truthy(existing_short_code)

\* check_url_exists, lines 124-142: the Firestore query.  It raises, answers
\* with a document, or answers with none; only a document ends the check, in
\* the other two cases the dict is scanned.
check_url_exists_remote(t) ==
    LET f == frame[t] IN
    /\ f.pc = "check_remote"
    /\ UNCHANGED <<mono, gen, phase, threaded, url_database, shortened_urls, ncalls>>
    /\ \/ /\ collection_ref' = HandleAfterError(collection_ref)
          /\ IF Catches(RouterExcept, RemoteError)
             THEN Continue(t, [Did(f, "firestore", "find", "error") EXCEPT !.pc = "scan"])
             ELSE Finish(t, Did(f, "firestore", "find", "error"), None, RemoteError, "none")
       \/ LET ids == DocWhere(shortened_urls, f.arg.val) IN
          /\ collection_ref' = collection_ref
          /\ IF ids = {}
             THEN Continue(t, [Did(f, "firestore", "find", "absent") EXCEPT !.pc = "scan"])
             ELSE \E id \in ids :
                    IF ReturnsExisting(Str(id))
                    THEN Finish(t, Did(f, "firestore", "find", "found"),
                                Str(id), "", "firestore")
                    ELSE Continue(t, [Did(f, "firestore", "find", "found") EXCEPT
                                         !.pc = StoreFirst])

\* check_url_exists, lines 145-155: one round of the loop over
\* url_database.items().  The first round creates the iterator (it_pos = 0
\* before it).  The iterator raises RuntimeError when the dict has changed
\* size since it was created; shorten_url logs that and re-raises (lines 73-81).
check_url_exists_scan(t) ==
    LET f == frame[t]
        used == IF f.it_pos = 0 THEN Len(url_database) ELSE f.it_used
        pos == IF f.it_pos = 0 THEN 1 ELSE f.it_pos
    IN
    /\ f.pc = "scan"
    /\ UNCHANGED <<mono, gen, phase, threaded, collection_ref, url_database, shortened_urls, ncalls>>
    /\ IF Len(url_database) # used
       THEN Finish(t, Did(f, "memory", "find", "error"), None, "RuntimeError", "none")
       ELSE IF pos > Len(url_database)
       THEN \* no match: check_url_exists returns None, the mapping is stored
            Continue(t, [Did(f, "memory", "find", "absent") EXCEPT !.pc = StoreFirst])
       ELSE IF url_database[pos].value = f.arg.val
       THEN IF ReturnsExisting(Str(url_database[pos].key))
            THEN Finish(t, Did(f, "memory", "find", "found"),
                        Str(url_database[pos].key), "", "memory")
            ELSE Continue(t, [Did(f, "memory", "find", "found") EXCEPT !.pc = StoreFirst])
       ELSE Continue(t, [f EXCEPT !.it_used = used, !.it_pos = pos + 1])

\* Variant without the return on line 99: the dict is written as well.
AfterRemotePutAlwaysLocal(outcome) == "store_local"

\* Variant that tries doc_ref.set again after it raised.
AfterRemotePutRetry(outcome) == IF outcome = "ok" THEN "return" ELSE "store_remote"

\* Variant without the fallback write on line 109.
AfterRemotePutNoFallback(outcome) == "return"

\* store_url_mapping, lines 99 and 108-110: after doc_ref.set succeeded the
\* function returns; after it raised, the dict is written.
AfterRemotePut(outcome) == IF outcome = "ok" THEN "return" ELSE "store_local"

\* store_url_mapping, lines 85-107: doc_ref.set either stores the document
\* or raises.
store_url_mapping_remote(t) ==
    LET f == frame[t] IN
    /\ f.pc = "store_remote"
    /\ UNCHANGED <<mono, gen, phase, threaded, url_database, ncalls>>
    /\ \/ /\ shortened_urls' = DocSet(shortened_urls, f.short_code, f.arg.val)
          /\ collection_ref' = collection_ref
          /\ IF AfterRemotePut("ok") = "return"
             THEN Finish(t, Did(f, "firestore", "put", "ok"),
                         Str(f.short_code), "", "firestore")
             ELSE Continue(t, [Did(f, "firestore", "put", "ok") EXCEPT
                                  !.pc = AfterRemotePut("ok")])
       \/ /\ shortened_urls' = shortened_urls
          /\ collection_ref' = HandleAfterError(collection_ref)
          /\ IF ~Catches(RouterExcept, RemoteError)
             THEN Finish(t, Did(f, "firestore", "put", "error"),
                         None, RemoteError, "none")
             ELSE IF AfterRemotePut("error") = "return"
             THEN Finish(t, Did(f, "firestore", "put", "error"),
                         Str(f.short_code), "", "none")
             ELSE Continue(t, [Did(f, "firestore", "put", "error") EXCEPT
                                  !.pc = AfterRemotePut("error")])

\* store_url_mapping, lines 108-120: url_database[short_code] = long_url, and
\* shorten_url returns short_code.
store_url_mapping_local(t) ==
    LET f == frame[t] IN
    /\ f.pc = "store_local"
    /\ UNCHANGED <<mono, gen, phase, threaded, collection_ref, shortened_urls, ncalls>>
    /\ url_database' = DictSet(url_database, f.short_code, f.arg.val)
    /\ Finish(t, Did(f, "memory", "put", "ok"), Str(f.short_code), "", "memory")

(* ---------------------------- get_long_url ----------------------------- *)
\* Lines 83-94: the call begins; retrieve_url_mapping asks Firestore first
\* when the handle is set.
ResolveCall(t, f) ==
    /\ ncalls' = ncalls + 1
    /\ hist' = hist
    /\ frame' = Started(t,
          [f EXCEPT !.short_code = f.arg.val,
                    !.pc = IF Truthy(collection_ref) THEN "get_remote" ELSE "get_local"])

\* get_long_url called by a caller of the core.
get_long_url(t) ==
    /\ CanAccept(t)
    /\ UNCHANGED <<mono, gen, phase, threaded, collection_ref, url_database, shortened_urls>>
    /\ \E short_code \in ResolveArgs :
         ResolveCall(t, NewFrame(t, "get_long_url", short_code))

\* What get_long_url returns for the value retrieve_url_mapping hands it
\* (lines 96-114): the value if it is truthy, else None.
get_long_url_result(long_url) == IF Truthy(long_url) THEN long_url ELSE None

\* retrieve_url_mapping, lines 159-178: document(short_code).get() raises,
\* answers with the document, or answers that there is none.  An exception
\* that left retrieve_url_mapping would end get_long_url with None (lines
\* 116-125).
retrieve_url_mapping_remote(t) ==
    LET f == frame[t] IN
    /\ f.pc = "get_remote"
    /\ UNCHANGED <<mono, gen, phase, threaded, url_database, shortened_urls, ncalls>>
    /\ \/ /\ collection_ref' = HandleAfterError(collection_ref)
          /\ IF Catches(RouterExcept, RemoteError)
             THEN Continue(t, [Did(f, "firestore", "get", "error") EXCEPT !.pc = "get_local"])
             ELSE Finish(t, Did(f, "firestore", "get", "error"), None, "", "none")
       \/ /\ collection_ref' = collection_ref
          /\ IF f.short_code \in DocIds(shortened_urls)
             THEN LET doc == CHOOSE d \in shortened_urls : d.id = f.short_code IN
                  Finish(t, Did(f, "firestore", "get", "found"),
                         get_long_url_result(Str(doc.long_url)), "", "firestore")
             ELSE Continue(t, [Did(f, "firestore", "get", "absent") EXCEPT
                                  !.pc = "get_local"])

\* retrieve_url_mapping, lines 180-191: url_database.get(short_code), returned
\* if truthy.
retrieve_url_mapping_local(t) ==
    LET f == frame[t]
        long_url == DictGet(url_database, f.short_code) IN
    /\ f.pc = "get_local"
    /\ UNCHANGED <<mono, gen, phase, threaded, collection_ref, url_database, shortened_urls, ncalls>>
    /\ IF Truthy(long_url)
       THEN Finish(t, Did(f, "memory", "get", "found"),
                   get_long_url_result(long_url), "", "memory")
       ELSE Finish(t, Did(f, "memory", "get", "absent"), None, "", "none")

(* ------------------------------ the routes ----------------------------- *)
\* Values request.get_json() can parse besides str, list and None: a dict
\* with the key 'text', a dict without it (the one test_api.py posts has the
\* keys name, email, message, timestamp), an int.
JsonDict(text) == [type |-> "dict", val |-> "text", text |-> text]
JsonDictNoText == [type |-> "dict", val |-> "name", text |-> None]
Int(s) == [type |-> "int", val |-> s]
\* A body sent as application/json that is no JSON document.
Malformed == [type |-> "malformed", val |-> ""]

RawBody(text) == [is_json |-> FALSE, data |-> Str(text)]
JsonBody(data) == [is_json |-> TRUE, data |-> data]

\* Bodies posted to /api/data.
PostBodies ==
    {RawBody(u) : u \in {URL_EMPTY, URL_A, URL_B}}
        \cup {JsonBody(JsonDict(Str(URL_C))), JsonBody(JsonDict(Str(URL_EMPTY))),
              JsonBody(JsonDict(Int("5"))), JsonBody(JsonDictNoText),
              JsonBody(Str(URL_A)), JsonBody(List("x")), JsonBody(Malformed)}

\* Codes asked of /api/url/<short_code>.
PathCodes ==
    {generate_md5_code(u, DefaultLength) : u \in {URL_A, URL_B, URL_C}}
        \cup {UNKNOWN_CODE}

\* isinstance(data, dict) and 'text' in data
HasText(data) == data.type = "dict" /\ data.val = "text"

\* request.get_json() raises BadRequest for a body that does not parse.
GetJsonRaises(body) == body.is_json /\ body.data.type = "malformed"

\* The record of a request that is answered before the core is called.
RouteRecord(f, response) ==
    [CallRecord(f, None, "", "none") EXCEPT !.response = response]

Respond(t, f, response) ==
    /\ ncalls' = ncalls + 1
    /\ hist' = Append(hist, RouteRecord(f, response))
    /\ frame' = Started(t, IdleFrame)

\* app.py, lines 57-129.  The body is read inside the try block, so that a
\* BadRequest raised by get_json reaches the except clause of line 120.
handle_post(t) ==
    /\ CanAccept(t)
    /\ UNCHANGED <<mono, gen, phase, threaded, collection_ref, url_database, shortened_urls>>
    /\ \E body \in PostBodies :
         LET f == [NewFrame(t, "", None) EXCEPT !.route = "handle_post", !.body = body]
             data == body.data
             input_string == IF body.is_json /\ HasText(data) THEN data.text ELSE data
         IN
         IF GetJsonRaises(body)
         THEN Respond(t, f, [status |-> 500, body |-> Str("Error: 400 Bad Request")])
         ELSE IF body.is_json /\ ~HasText(data) /\ ~IsStr(data)
         THEN Respond(t, f, [status |-> 400, body |->
                  Str("Error: Please send a string or {'text': 'your string'}")])
         ELSE IF ~Truthy(input_string) \/ ~IsStr(input_string)
         THEN Respond(t, f, [status |-> 400, body |->
                  Str("Error: Please provide a valid string input")])
         ELSE ShortenCall(t, [f EXCEPT !.op = "shorten_url", !.arg = input_string])

\* app.py, lines 131-194: the route /api/url/<short_code> hands the path
\* segment, a non-empty str, to get_long_url.
get_url(t) ==
    /\ CanAccept(t)
    /\ UNCHANGED <<mono, gen, phase, threaded, collection_ref, url_database, shortened_urls>>
    /\ \E short_code \in PathCodes :
         ResolveCall(t, [NewFrame(t, "get_long_url", Str(short_code)) EXCEPT
                            !.route = "get_url"])

(* ---------------------------- specifications --------------------------- *)
Next ==
    \/ initialize_firebase
    \/ \E t \in Threads :
         \/ shorten_url(t)
         \/ check_url_exists_remote(t)
         \/ check_url_exists_scan(t)
         \/ store_url_mapping_remote(t)
         \/ store_url_mapping_local(t)
         \/ get_long_url(t)
         \/ retrieve_url_mapping_remote(t)
         \/ retrieve_url_mapping_local(t)

\* One request at a time.
Spec == Init /\ [][Next]_vars

\* A step of the call that thread t is running.
Step(t) ==
    \/ check_url_exists_remote(t)
    \/ check_url_exists_scan(t)
    \/ store_url_mapping_remote(t)
    \/ store_url_mapping_local(t)
    \/ retrieve_url_mapping_remote(t)
    \/ retrieve_url_mapping_local(t)

\* Requests on concurrent threads.
SpecConcurrent == InitConcurrent /\ [][Next]_vars

\* url_service.py, lines 15-31: the call of generate_md5_code returns.
generate_md5_code_call ==
    /\ gen.pc = "call"
    /\ gen' = [gen EXCEPT !.pc = "done",
                          !.result = generate_md5_code(gen.url, gen.length)]
    /\ UNCHANGED <<mono, phase, threaded, collection_ref, url_database,
                   shortened_urls, frame, hist, ncalls>>

NextGenerate == generate_md5_code_call

\* The code generator alone, over all URLs and lengths.
SpecGenerate == InitGenerate /\ [][NextGenerate]_vars

\* The service as its clients reach it: every call comes through a route.
NextHttp ==
    \/ initialize_firebase
    \/ \E t \in Threads :
         \/ handle_post(t)
         \/ get_url(t)
         \/ check_url_exists_remote(t)
         \/ check_url_exists_scan(t)
         \/ store_url_mapping_remote(t)
         \/ store_url_mapping_local(t)
         \/ retrieve_url_mapping_remote(t)
         \/ retrieve_url_mapping_local(t)

SpecHttp == Init /\ [][NextHttp]_vars

(* ------------------------ reading the call log ------------------------- *)
Calls == 1..Len(hist)

IsShorten(r) == r.op = "shorten_url"
IsResolve(r) == r.op = "get_long_url"
Ops(r) == {r.trace[i] : i \in 1..Len(r.trace)}
RemoteOps(r) == {o \in Ops(r) : o.tier = "firestore"}
RemoteFailed(r) == \E o \in RemoteOps(r) : o.outcome = "error"
AllRemoteFailed(r) == \A o \in RemoteOps(r) : o.outcome = "error"
Configured == collection_ref = Handle
EmptyStores(st) == st.url_database = <<>> /\ st.shortened_urls = {}

\* The records a pair of stores holds for the URL u, as <<tier, key>>.
RecordsFor(st, u) ==
    {<<"memory", st.url_database[i].key>> :
        i \in {j \in 1..Len(st.url_database) : st.url_database[j].value = u}}
    \cup {<<"firestore", d.id>> : d \in {e \in st.shortened_urls : e.long_url = u}}

\* Call i + 1 is a resolve of the code that the shorten call i returned.
ShortenThenResolve(i) ==
    /\ i + 1 \in Calls
    /\ IsShorten(hist[i]) /\ IsStr(hist[i].arg) /\ hist[i].exc = ""
    /\ IsResolve(hist[i + 1]) /\ hist[i + 1].arg = hist[i].result

(* ------------------------------- claims -------------------------------- *)
\* C1 (round trip): for every long URL u that shorten accepts as a string,
\* the empty one included, and in every storage mode, a resolve of the code
\* returned by shorten(u) returns exactly u.
RoundTrip ==
    \A i \in Calls : ShortenThenResolve(i) => hist[i + 1].result = hist[i].arg

\* The case of C2: calls i and i + 1 shorten the same URL, the first from
\* empty stores, and no Firestore call of either raises.
IdempotentShortenCase(i) ==
    /\ i + 1 \in Calls
    /\ IsShorten(hist[i]) /\ IsShorten(hist[i + 1])
    /\ IsStr(hist[i].arg) /\ hist[i + 1].arg = hist[i].arg
    /\ EmptyStores(hist[i].before)
    /\ ~RemoteFailed(hist[i]) /\ ~RemoteFailed(hist[i + 1])

\* C2 (idempotent shorten): starting from empty stores, two successive
\* shorten(u) calls with the identical u and no storage failure return the
\* same code, and afterwards exactly one record exists for u, counting both
\* tiers, keyed by that code.
IdempotentShorten ==
    \A i \in Calls : IdempotentShortenCase(i) =>
        /\ hist[i].exc = "" /\ hist[i + 1].exc = ""
        /\ IsStr(hist[i].result)
        /\ hist[i + 1].result = hist[i].result
        /\ Cardinality(RecordsFor(hist[i + 1].after, hist[i].arg.val)) = 1
        /\ \A r \in RecordsFor(hist[i + 1].after, hist[i].arg.val) :
              r[2] = hist[i].result.val

IdempotentShortenWitness ==
    \E i \in Calls : IdempotentShortenCase(i) /\ Configured
                     /\ hist[i + 1].served = "firestore"

\* The cases of C3: call i is a shorten in Configured mode whose Firestore
\* calls all raise; call i + 1 resolves its code, its Firestore get raising too.
FallbackShortenCase(i) ==
    /\ Configured
    /\ IsShorten(hist[i]) /\ IsStr(hist[i].arg) /\ hist[i].arg.val # ""
    /\ RemoteOps(hist[i]) # {} /\ AllRemoteFailed(hist[i])

FallbackResolveCase(i) ==
    /\ FallbackShortenCase(i)
    /\ ShortenThenResolve(i)
    /\ RemoteOps(hist[i + 1]) # {} /\ AllRemoteFailed(hist[i + 1])

PartialFailureCase(i) ==
    /\ Configured
    /\ ShortenThenResolve(i)
    /\ hist[i].arg.val # ""
    /\ StoreOp("firestore", "put", "error") \in Ops(hist[i])
    /\ StoreOp("firestore", "find", "error") \notin Ops(hist[i])
    /\ StoreOp("firestore", "get", "error") \notin Ops(hist[i + 1])

\* C4 (partial remote failure): in Configured mode, when only the Remote put
\* fails during shorten(u) of a non-empty URL, shorten still returns a code c
\* and the resolve(c) that follows, whose Remote get answers, returns u from
\* the local dict, whatever the Remote collection contains.
PartialRemoteFailure ==
    \A i \in Calls : PartialFailureCase(i) =>
        /\ hist[i + 1].result = hist[i].arg
        /\ hist[i + 1].served = "memory"

\* The case of C5: call i resolves a code that neither tier holds.
NotFoundCase(i) ==
    /\ IsResolve(hist[i])
    /\ hist[i].arg.val \notin DictKeys(hist[i].before.url_database)
    /\ hist[i].arg.val \notin DocIds(hist[i].before.shortened_urls)

\* C5 (not-found contract): resolve(c) for a code c that has no record in
\* either tier returns None and never raises, in every storage mode and
\* whether the Remote get answers or fails.
NotFoundContract ==
    \A i \in Calls : NotFoundCase(i) => hist[i].result = None /\ hist[i].exc = ""

NotFoundContractWitness ==
    \E i \in Calls :
        /\ NotFoundCase(i)
        /\ ~EmptyStores(hist[i].before)
        /\ StoreOp("firestore", "get", "error") \in Ops(hist[i])
        /\ hist[i].result = None

\* C6 (Remote failures are never surfaced): for every string input and every
\* pattern of Remote failures, shorten returns a code and resolve returns a
\* URL or None; no exception leaves shorten or resolve.
RemoteFailuresNotSurfaced ==
    \A i \in Calls : IsStr(hist[i].arg) =>
        /\ hist[i].exc = ""
        /\ IsShorten(hist[i]) =>
              IsStr(hist[i].result) /\ Len(hist[i].result.val) = DefaultLength
        /\ IsResolve(hist[i]) =>
              hist[i].result = None
                \/ (IsStr(hist[i].result) /\ hist[i].result.val \in URLS)

RemoteFailuresNotSurfacedWitness ==
    \E i \in Calls, j \in Calls :
        /\ IsShorten(hist[i]) /\ IsStr(hist[i].arg)
        /\ StoreOp("firestore", "find", "error") \in Ops(hist[i])
        /\ StoreOp("firestore", "put", "error") \in Ops(hist[i])
        /\ IsStr(hist[i].result)
        /\ IsResolve(hist[j])
        /\ StoreOp("firestore", "get", "error") \in Ops(hist[j])
        /\ IsStr(hist[j].result)

\* C7 (at most one code per URL): over any sequence of shorten calls, with
\* any Remote failure pattern, every shorten(u) for the same long URL u
\* returns the same short code.
OneCodePerUrl ==
    \A i \in Calls, j \in Calls :
        (/\ IsShorten(hist[i]) /\ IsShorten(hist[j])
         /\ IsStr(hist[i].arg) /\ hist[j].arg = hist[i].arg
         /\ hist[i].exc = "" /\ hist[j].exc = "")
        => hist[j].result = hist[i].result

OneCodePerUrlWitness ==
    \E i \in Calls, j \in Calls :
        /\ i < j
        /\ IsShorten(hist[i]) /\ IsShorten(hist[j])
        /\ IsStr(hist[i].arg) /\ hist[j].arg = hist[i].arg
        /\ hist[i].served = "memory" /\ hist[j].served = "firestore"
        /\ hist[j].result = hist[i].result

\* C8 (mappings are immutable and never deleted): once a mapping c -> u is
\* stored in a tier, no later step of any shorten or resolve call changes or
\* removes the URL stored under c in that tier.
MappingsImmutable ==
    [][/\ \A d \in shortened_urls : d \in shortened_urls'
       /\ \A i \in 1..Len(url_database) :
             i <= Len(url_database') /\ url_database'[i] = url_database[i]]_vars

\* C9 (InvalidInput is rejected before storage): shorten called with an
\* empty or non-string input fails with an error without issuing any
\* find, put or get on either tier, leaving both tiers unchanged.
InvalidInputRejected ==
    \A i \in Calls :
        (IsShorten(hist[i]) /\ (~IsStr(hist[i].arg) \/ hist[i].arg.val = ""))
        => /\ hist[i].exc # ""
           /\ hist[i].trace = <<>>
           /\ hist[i].after = hist[i].before

\* The case of C10: calls i and i + 1 shorten the same URL and overlap each
\* other and no third call.
ConcurrentPair(i) ==
    /\ i + 1 \in Calls
    /\ IsShorten(hist[i]) /\ IsShorten(hist[i + 1])
    /\ IsStr(hist[i].arg) /\ hist[i + 1].arg = hist[i].arg
    /\ hist[i].overlap = {hist[i + 1].seq}
    /\ hist[i + 1].overlap = {hist[i].seq}

\* C10 (concurrent shorten is safe): when two shorten(u) calls for the same u
\* overlap, no call raises, both return the same code, and the tier that
\* served them ends with exactly one record for u.
ConcurrentShortenSafe ==
    \A i \in Calls : ConcurrentPair(i) =>
        /\ hist[i].exc = "" /\ hist[i + 1].exc = ""
        /\ hist[i + 1].result = hist[i].result
        /\ Cardinality({r \in RecordsFor(hist[i + 1].after, hist[i].arg.val) :
                           r[1] = hist[i + 1].served}) = 1

(* ------------------------------ C11 ------------------------------------ *)
IsPost(r) == r.route = "handle_post"
IsGet(r) == r.route = "get_url"

\* The string a body supplies: the raw text, the value under 'text', or the
\* JSON value itself.
Supplied(body) ==
    IF body.is_json /\ HasText(body.data) THEN body.data.text ELSE body.data

SuppliesString(body) == IsStr(Supplied(body)) /\ Supplied(body).val # ""

\* C11 (POST /api/data): a body that supplies a non-empty string is answered
\* 200 with the bare short code of that string; any other body is answered
\* 400 and shorten_url is not called; 500 is answered only when shorten_url
\* raised.
PostContract ==
    \A i \in Calls :
        LET r == hist[i] IN
        IsPost(r) =>
            /\ SuppliesString(r.body) =>
                  /\ r.response.status = 200
                  /\ r.response.body =
                        Str(generate_md5_code(Supplied(r.body).val, DefaultLength))
            /\ ~SuppliesString(r.body) =>
                  r.response.status = 400 /\ r.op = ""
            /\ r.response.status = 500 =>
                  r.op = "shorten_url" /\ r.exc # ""

(* ------------------------------ C12 ------------------------------------ *)
\* Whether the Firestore get of call r answered (with a document or with none).
RemoteRead(r) == \E o \in RemoteOps(r) : o.op = "get" /\ o.outcome # "error"

\* The URLs stored under code in the tiers call r could read.
ReadableUnder(r, code) ==
    {d.long_url : d \in {e \in r.before.shortened_urls :
                            RemoteRead(r) /\ e.id = code}}
        \cup {r.before.url_database[k].value :
                k \in {j \in 1..Len(r.before.url_database) :
                         r.before.url_database[j].key = code}}

\* C12 (GET /api/url/<code>): the answer is 200 with short_code, long_url and
\* status success exactly when a record for the code exists in a tier the
\* call can read, and the long_url is one stored under the code there;
\* otherwise the answer is 404 with the error "Short code not found".
GetContract ==
    \A i \in Calls :
        LET r == hist[i]
            code == r.arg.val
        IN
        IsGet(r) =>
            /\ r.response.status = 200 <=> ReadableUnder(r, code) # {}
            /\ r.response.status = 200 =>
                  /\ r.response.body.short_code = code
                  /\ r.response.body.status = "success"
                  /\ r.response.body.long_url \in ReadableUnder(r, code)
            /\ r.response.status # 200 =>
                  /\ r.response.status = 404
                  /\ r.response.body.short_code = code
                  /\ r.response.body.error = "Short code not found"

\* A code whose record Firestore holds is answered 404 while the get fails and
\* 200 when it answers; and a code is answered 200 from the dict.
GetContractWitness ==
    /\ \E i \in Calls :
          /\ IsGet(hist[i]) /\ hist[i].response.status = 404
          /\ hist[i].arg.val \in DocIds(hist[i].before.shortened_urls)
    /\ \E j \in Calls : IsGet(hist[j]) /\ hist[j].response.status = 200

(* ------------------------------ C14 ------------------------------------ *)
HexDigits == {"0", "1", "2", "3", "4", "5", "6", "7", "8", "9",
              "a", "b", "c", "d", "e", "f"}

IsLowerHex(s) == \A i \in 1..Len(s) : SubSeq(s, i, i) \in HexDigits

\* Number of characters of an MD5 hex digest.
DigestLength == 32

\* C14 as stated: for every URL and every length n the code
\* has exactly n characters, all lowercase hexadecimal digits, and six
\* characters for the default length.
LengthContract ==
    gen.pc = "done" =>
        /\ Len(gen.result) = gen.length
        /\ IsLowerHex(gen.result)
        /\ gen.length = DefaultLength => Len(gen.result) = 6

\* C14 (length contract): for every URL and every length n up to the 32
\* characters of the digest the code has exactly n characters; for a larger n
\* it is the whole digest of 32 characters; every character is a lowercase
\* hexadecimal digit; the default length gives six characters.
LengthContractUpToDigest ==
    gen.pc = "done" =>
        /\ gen.length <= DigestLength => Len(gen.result) = gen.length
        /\ gen.length > DigestLength => Len(gen.result) = DigestLength
        /\ IsLowerHex(gen.result)
        /\ gen.length = DefaultLength => Len(gen.result) = 6

\* A code was generated for a length beyond the digest.
LengthContractWitness ==
    /\ gen.pc = "done"
    /\ gen.length > DigestLength
    /\ gen.url # URL_EMPTY

(* ------------------------------ C15 ------------------------------------ *)
RemotePcs == {"check_remote", "store_remote", "get_remote"}

\* The tier of the k-th storage operation of call record or frame x.
TierOf(x, k) == x.trace[k].tier

\* C15 (Unconfigured mode): while collection_ref is None, every storage
\* operation of every call is served by the dict, no call is at or has made a
\* Firestore call, and the collection is untouched.
UnconfiguredLocalOnly ==
    (phase = "serving" /\ collection_ref = None) =>
        /\ \A i \in Calls :
              /\ \A k \in 1..Len(hist[i].trace) : TierOf(hist[i], k) = "memory"
              /\ hist[i].served \in {"memory", "none"}
              /\ IsStr(hist[i].arg) => hist[i].trace # <<>>
        /\ \A t \in Threads :
              /\ frame[t].pc \notin RemotePcs
              /\ \A k \in 1..Len(frame[t].trace) : TierOf(frame[t], k) = "memory"
        /\ shortened_urls = {}

\* In Unconfigured mode a find_by_value, a put and a get have been served.
UnconfiguredLocalOnlyWitness ==
    /\ phase = "serving" /\ collection_ref = None
    /\ \A op \in {"find", "put", "get"} :
          \E i \in Calls : \E o \in Ops(hist[i]) : o.op = op /\ o.tier = "memory"

(* ------------------------------ C16 ------------------------------------ *)
\* Every dict operation in trace tr comes directly after a Firestore attempt
\* of the same operation that raised or, for find and get, found nothing; a
\* trace that is not empty begins with a Firestore attempt.
RemoteFirst(tr) ==
    /\ tr # <<>> => tr[1].tier = "firestore"
    /\ \A k \in 1..Len(tr) :
          tr[k].tier = "memory" =>
              /\ k > 1
              /\ tr[k - 1].tier = "firestore"
              /\ tr[k - 1].op = tr[k].op
              /\ tr[k - 1].outcome \in {"error", "absent"}
              /\ tr[k].op = "put" => tr[k - 1].outcome = "error"

EverRemote ==
    \/ \E i \in Calls : RemoteOps(hist[i]) # {}
    \/ \E t \in Threads : \E k \in 1..Len(frame[t].trace) :
          frame[t].trace[k].tier = "firestore"

\* C16 (fallback is per operation, never sticky): once a Firestore call has
\* been made the handle stays set whatever failed, and in Configured mode
\* every storage operation of every call attempts Firestore first; the dict
\* is used only for the single operation whose Firestore attempt just failed
\* (or, for find and get, found nothing).
FallbackNotSticky ==
    /\ EverRemote => collection_ref = Handle
    /\ Configured =>
          /\ \A i \in Calls :
                /\ RemoteFirst(hist[i].trace)
                /\ IsStr(hist[i].arg) => hist[i].trace # <<>>
          /\ \A t \in Threads : RemoteFirst(frame[t].trace)

\* Two calls had every Firestore call fail and fell back to the dict; the
\* call after them was served by Firestore.
FallbackNotStickyWitness ==
    /\ Len(hist) = 3
    /\ \A i \in {1, 2} :
          /\ RemoteOps(hist[i]) # {}
          /\ AllRemoteFailed(hist[i])
          /\ hist[i].served = "memory"
    /\ hist[3].served = "firestore"

(* ------------------------------ C17 ------------------------------------ *)
\* C17 (initialization failure means Unconfigured): initialize_firebase
\* always returns normally, whatever the client library raised, so the import
\* of the service never ends with the exception; before the first call the
\* handle is either set or None and the dict is empty.
InitFailureIsUnconfigured ==
    /\ phase # "crashed"
    /\ (phase = "serving" /\ ncalls = 0) =>
          /\ collection_ref \in {None, Handle}
          /\ url_database = <<>>

(* ------------------------------ C18 ------------------------------------ *)
\* The tier in which the check of call r found a code, "" if it found none.
FoundIn(r) ==
    IF \E o \in Ops(r) : o.op = "find" /\ o.outcome = "found"
    THEN (CHOOSE o \in Ops(r) : o.op = "find" /\ o.outcome = "found").tier
    ELSE ""

\* C18 (a deduplication hit writes nothing): a shorten call whose
\* check_url_exists found a code, in Firestore or in the dict, returns a code
\* under which that tier held the URL, makes no put, and leaves both tiers as
\* they were.
DedupHitWritesNothing ==
    \A i \in Calls :
        LET r == hist[i] IN
        (IsShorten(r) /\ FoundIn(r) # "") =>
            /\ r.exc = "" /\ IsStr(r.result)
            /\ \A o \in Ops(r) : o.op # "put"
            /\ r.after = r.before
            /\ FoundIn(r) = "firestore" =>
                  r.result.val \in DocWhere(r.before.shortened_urls, r.arg.val)
            /\ FoundIn(r) = "memory" =>
                  \E k \in 1..Len(r.before.url_database) :
                      /\ r.before.url_database[k].key = r.result.val
                      /\ r.before.url_database[k].value = r.arg.val

\* A URL was found in the dict after Firestore answered that it has none.
DedupHitWritesNothingWitness ==
    \E i \in Calls :
        /\ IsShorten(hist[i])
        /\ hist[i].arg.val # URL_EMPTY
        /\ hist[i].trace = <<StoreOp("firestore", "find", "absent"),
                             StoreOp("memory", "find", "found")>>

(* ------------------------------ C19 ------------------------------------ *)
\* Some thread is inside the loop over url_database.items(): its iterator
\* exists and has handed out at least one item.
ScanInProgress == \E t \in Threads : frame[t].pc = "scan" /\ frame[t].it_pos > 0

\* C19 (LocalStore mutual exclusion): while a scan of url_database is in
\* progress no step changes url_database, hence no scan sees the dict change
\* under it.
LocalStoreExclusive == [][ScanInProgress => url_database' = url_database]_vars

(* ------------------------------ C20 ------------------------------------ *)
\* Whether the k-th storage operation of call r is a Firestore call that
\* completed without error.
RemoteAnswered(r, k) ==
    r.trace[k].tier = "firestore" /\ r.trace[k].outcome # "error"

\* Whether the dict is used for the same operation right after the k-th.
ThenLocal(r, k) ==
    /\ k < Len(r.trace)
    /\ r.trace[k + 1].tier = "memory"
    /\ r.trace[k + 1].op = r.trace[k].op

\* C20 as stated: after a Firestore call that completed without error,
\* whatever it answered, the dict is neither read nor written for that
\* operation.
RemoteSuccessAuthoritative ==
    \A i \in Calls :
        \A k \in 1..Len(hist[i].trace) :
            RemoteAnswered(hist[i], k) => ~ThenLocal(hist[i], k)

\* C20 (Remote success is authoritative, amended): a Firestore put that
\* succeeded and a Firestore find or get that found a record end the call:
\* the dict is neither read nor written after them, the call is served by
\* Firestore and returns the code stored or found, or the URL found.  A find
\* or get that Firestore answers with 'absent' is followed by the same
\* operation on the dict.
RemoteHitAuthoritative ==
    \A i \in Calls :
        LET r == hist[i] IN
        \A k \in 1..Len(r.trace) :
            /\ (RemoteAnswered(r, k) /\ r.trace[k].outcome \in {"ok", "found"}) =>
                  /\ k = Len(r.trace)
                  /\ r.served = "firestore"
                  /\ r.after.url_database = r.before.url_database
                  /\ r.trace[k].op = "put" =>
                        r.result = Str(generate_md5_code(r.arg.val, DefaultLength))
                  /\ r.trace[k].op = "find" =>
                        r.result.val \in DocWhere(r.before.shortened_urls, r.arg.val)
                  /\ r.trace[k].op = "get" =>
                        r.result = get_long_url_result(Str(
                            (CHOOSE d \in r.before.shortened_urls :
                                d.id = r.arg.val).long_url))
            /\ (RemoteAnswered(r, k) /\ r.trace[k].outcome = "absent") =>
                  ThenLocal(r, k)

\* In one run a Firestore put succeeded, a Firestore get found the record,
\* and a Firestore get that found none was followed by a read of the dict.
RemoteHitAuthoritativeWitness ==
    /\ \E i \in Calls : StoreOp("firestore", "put", "ok") \in Ops(hist[i])
    /\ \E i \in Calls : StoreOp("firestore", "get", "found") \in Ops(hist[i])
    /\ \E i \in Calls :
          hist[i].trace = <<StoreOp("firestore", "get", "absent"),
                            StoreOp("memory", "get", "absent")>>

(* ------------------------------ C21 ------------------------------------ *)
\* Call r wrote its mapping to the dict because the Firestore put raised.
FellBackOnPut(r) ==
    /\ IsShorten(r)
    /\ StoreOp("firestore", "put", "error") \in Ops(r)
    /\ StoreOp("memory", "put", "ok") \in Ops(r)

\* Whether the collection coll holds the mapping code -> url.
RemoteHolds(coll, code, url) == \E d \in coll : d.id = code /\ d.long_url = url

\* C21 (no migration): a mapping that went to the dict because its Firestore
\* put raised, and that the collection did not hold then, is not in the
\* collection in any later state, whatever is shortened afterwards.
NoMigration ==
    \A i \in Calls :
        LET r == hist[i] IN
        (/\ FellBackOnPut(r)
         /\ ~RemoteHolds(r.after.shortened_urls, r.result.val, r.arg.val))
            => ~RemoteHolds(shortened_urls, r.result.val, r.arg.val)

(* ------------------------------ C22 ------------------------------------ *)
\* Call i is a shorten of a non-empty URL for which neither store held a record.
ShortenOfNewUrl(i) ==
    /\ IsShorten(hist[i]) /\ IsStr(hist[i].arg)
    /\ hist[i].arg.val # URL_EMPTY
    /\ RecordsFor(hist[i].before, hist[i].arg.val) = {}

\* C22 (collisions are not detected): a shorten of a non-empty URL that is
\* not yet stored makes a put under generate_md5_code of the URL and returns
\* that code without error, also when the code is already the key of another
\* URL; a resolve of the code right after it returns the URL just shortened.
CollisionsOverwrite ==
    \A i \in Calls :
        LET r == hist[i] IN
        ShortenOfNewUrl(i) =>
            /\ r.exc = ""
            /\ r.result = Str(generate_md5_code(r.arg.val, DefaultLength))
            /\ \E o \in Ops(r) : o.op = "put" /\ o.outcome = "ok"
            /\ ShortenThenResolve(i) => hist[i + 1].result = r.arg

(* ------------------------------ C23 ------------------------------------ *)
\* C23 (key consistency): in every state every entry of url_database and
\* every document of the collection has as key generate_md5_code of the URL
\* it stores, at the default length; and every code a shorten call returned,
\* stored anew or found by check_url_exists, is generate_md5_code of its URL.
KeyConsistency ==
    /\ \A k \in 1..Len(url_database) :
          url_database[k].key =
              generate_md5_code(url_database[k].value, DefaultLength)
    /\ \A d \in shortened_urls :
          /\ d.id = generate_md5_code(d.long_url, DefaultLength)
          /\ d.short_code = d.id
    /\ \A i \in Calls :
          (IsShorten(hist[i]) /\ hist[i].exc = "") =>
              hist[i].result =
                  Str(generate_md5_code(hist[i].arg.val, DefaultLength))

\* Both stores hold a record, and some shorten call returned a code that
\* check_url_exists found.
KeyConsistencyWitness ==
    /\ url_database # <<>>
    /\ shortened_urls # {}
    /\ \E i \in Calls : IsShorten(hist[i]) /\ FoundIn(hist[i]) # ""

(* ------------------------------ C24 ------------------------------------ *)
\* The URLs the stores st hold under code, in either tier.
StoredUnder(st, code) ==
    {d.long_url : d \in {e \in st.shortened_urls : e.id = code}}
        \cup {st.url_database[k].value :
                k \in {j \in 1..Len(st.url_database) :
                         st.url_database[j].key = code}}

\* C24 (not_found only for codes never stored): when a resolve returns None,
\* neither the collection nor the dict holds a record with a non-empty URL
\* for the code; in particular a Firestore get that raised is not answered
\* with None for a code the collection holds.
NotFoundMeansAbsent ==
    \A i \in Calls :
        LET r == hist[i] IN
        (IsResolve(r) /\ r.result = None) =>
            StoredUnder(r.before, r.arg.val) \subseteq {URL_EMPTY}

(* ------------------------------ C25 ------------------------------------ *)
\* C25 (postcondition of shorten): whenever a shorten call returns a code,
\* then at its return the collection or the dict holds a record with that
\* code as key and the URL of the call, whichever Firestore calls raised.
ShortenPostcondition ==
    \A i \in Calls :
        LET r == hist[i] IN
        (IsShorten(r) /\ r.exc = "") =>
            \E tier \in {"memory", "firestore"} :
                <<tier, r.result.val>> \in RecordsFor(r.after, r.arg.val)

\* A shorten call returned although its Firestore query and its Firestore
\* put both raised, and one returned with both Firestore calls answering.
ShortenPostconditionWitness ==
    /\ \E i \in Calls :
          /\ IsShorten(hist[i]) /\ hist[i].exc = ""
          /\ hist[i].trace = <<StoreOp("firestore", "find", "error"),
                               StoreOp("memory", "find", "absent"),
                               StoreOp("firestore", "put", "error"),
                               StoreOp("memory", "put", "ok")>>
    /\ \E j \in Calls :
          /\ IsShorten(hist[j]) /\ hist[j].exc = ""
          /\ hist[j].served = "firestore"

(* ------------------------------ C26 ------------------------------------ *)
ReadPcs == {"check_remote", "scan", "get_remote", "get_local"}

\* Some thread takes a step of check_url_exists or of retrieve_url_mapping.
ReadStep == \E t \in Threads : frame[t].pc \in ReadPcs /\ frame'[t] # frame[t]

\* C26 (reads are read-only): no step of the existence check and no step of
\* a resolve changes the dict, the collection or the handle, whether the
\* step finds a record, finds none, or is a Firestore call that raises.
ReadsAreReadOnly ==
    [][ReadStep => /\ url_database' = url_database
                   /\ shortened_urls' = shortened_urls
                   /\ collection_ref' = collection_ref]_vars

\* A resolve has gone through a Firestore get that raised and found the
\* record in the dict, and an existence check has found a record.
ReadsAreReadOnlyWitness ==
    /\ \E i \in Calls :
          IsResolve(hist[i]) /\ RemoteFailed(hist[i]) /\ hist[i].result # None
    /\ \E j \in Calls : IsShorten(hist[j]) /\ FoundIn(hist[j]) # ""

(* ------------------------------ C27 ------------------------------------ *)
\* C27 (LocalStore grows monotonically): url_database is empty at startup,
\* and no step of initialization or of any operation removes one of its keys.
LocalStoreMonotone ==
    /\ url_database = <<>>
    /\ [][DictKeys(url_database) \subseteq DictKeys(url_database')]_vars

\* The dict holds two keys, the second written after the first.
LocalStoreMonotoneWitness == Len(url_database) >= 2

(* ------------------------------ C28 ------------------------------------ *)
\* How often the Firestore operation op occurs in trace tr.
RemoteAttempts(tr, op) ==
    Cardinality({k \in 1..Len(tr) : tr[k].tier = "firestore" /\ tr[k].op = op})

\* The pc at which the dict is used for operation op.
FallbackPc(op) ==
    CASE op = "find" -> "scan" [] op = "put" -> "store_local" [] op = "get" -> "get_local"

\* Trace tr of a call that is at pc (or has ended, pc = "idle") makes at most
\* one Firestore attempt per operation, and what follows a Firestore attempt
\* that raised is the same operation on the dict.
NoRetryIn(tr, pc) ==
    /\ \A op \in {"find", "put", "get"} : RemoteAttempts(tr, op) <= 1
    /\ \A k \in 1..Len(tr) :
          (tr[k].tier = "firestore" /\ tr[k].outcome = "error") =>
              IF k < Len(tr)
              THEN tr[k + 1].tier = "memory" /\ tr[k + 1].op = tr[k].op
              ELSE pc = FallbackPc(tr[k].op)

NoRetry ==
    /\ \A i \in Calls :
          /\ hist[i].trace # <<>> =>
                NoRetryIn(hist[i].trace,
                          FallbackPc(hist[i].trace[Len(hist[i].trace)].op))
          /\ IsShorten(hist[i]) => RemoteAttempts(hist[i].trace, "get") = 0
          /\ IsResolve(hist[i]) =>
                /\ RemoteAttempts(hist[i].trace, "find") = 0
                /\ RemoteAttempts(hist[i].trace, "put") = 0
    /\ \A t \in Threads : NoRetryIn(frame[t].trace, frame[t].pc)

\* How far a call at pc has come: the existence check or the get from
\* Firestore, then the one from the dict, then the put to Firestore, then the
\* put to the dict, then the return.
Stage(pc) ==
    CASE pc \in {"check_remote", "get_remote"} -> 0
      [] pc \in {"scan", "get_local"} -> 1
      [] pc = "store_remote" -> 2
      [] pc = "store_local" -> 3
      [] pc = "idle" -> 4

\* Frame g is further on than frame f: at a later stage, or further in the
\* scan of the dict, which ends one past the last entry.
Progress(f, g) ==
    \/ Stage(g.pc) > Stage(f.pc)
    \/ /\ f.pc = "scan" /\ g.pc = "scan"
       /\ g.it_pos > f.it_pos
       /\ g.it_pos <= Len(url_database) + 1

\* The call of frame f has taken a step to frame g.
Moved(f, g) == g.pc # f.pc \/ g.it_pos # f.it_pos \/ g.trace # f.trace

\* C28 (no retry, always terminates): every call makes at most one Firestore
\* attempt per storage step, and an attempt that raised is followed at once
\* by the same operation on the dict; a call that has begun can always take
\* its next step (a Firestore call it makes returns or raises), and every
\* step takes it further on towards its return, which bounds its length.
NoRetryTerminates ==
    /\ []NoRetry
    /\ [](\A t \in Threads : frame[t].pc # "idle" => ENABLED Step(t))
    /\ [][\A t \in Threads :
            (frame[t].pc # "idle" /\ Moved(frame[t], frame'[t])) =>
                Progress(frame[t], frame'[t])]_vars

\* A shorten call has ended after its Firestore query and its Firestore put
\* both raised, and a resolve has ended after its Firestore get raised.
NoRetryTerminatesWitness ==
    /\ \E i \in Calls :
          /\ IsShorten(hist[i])
          /\ StoreOp("firestore", "find", "error") \in Ops(hist[i])
          /\ StoreOp("firestore", "put", "error") \in Ops(hist[i])
    /\ \E j \in Calls :
          /\ IsResolve(hist[j])
          /\ StoreOp("firestore", "get", "error") \in Ops(hist[j])

(* ------------------------------ C29 ------------------------------------ *)
\* The mapping of a tier: the pairs of code and URL it holds, with the
\* number of records.
MappingOf(st, tier) ==
    IF tier = "firestore"
    THEN [pairs |-> {<<d.short_code, d.long_url>> : d \in st.shortened_urls},
          size |-> Cardinality(st.shortened_urls)]
    ELSE [pairs |-> {<<st.url_database[k].key, st.url_database[k].value>> :
                        k \in 1..Len(st.url_database)},
          size |-> Len(st.url_database)]

\* Call r ended with a put to tier, which held the mapping of the call
\* already when r began.
SecondPut(r, tier) ==
    /\ IsShorten(r)
    /\ StoreOp(tier, "put", "ok") \in Ops(r)
    /\ <<generate_md5_code(r.arg.val, DefaultLength), r.arg.val>>
          \in MappingOf(r.before, tier).pairs

\* The stores as they are, and as they are after the step.
StoresNow == [url_database |-> url_database, shortened_urls |-> shortened_urls]
StoresNext == [url_database |-> url_database', shortened_urls |-> shortened_urls']

\* The step is a put to tier, ending its call, of a mapping that the tier
\* holds already.
SecondPutStep(tier) ==
    /\ Len(hist') = Len(hist) + 1
    /\ LET r == hist'[Len(hist')] IN
       /\ r.trace # <<>>
       /\ r.trace[Len(r.trace)] = StoreOp(tier, "put", "ok")
       /\ <<generate_md5_code(r.arg.val, DefaultLength), r.arg.val>>
             \in MappingOf(StoresNow, tier).pairs

\* C29 (put is idempotent): a put of a pair of code and URL to a tier that
\* already holds that pair from an earlier put leaves the mapping of the tier
\* as it was: the same pairs and no further record.
PutIdempotent ==
    [][\A tier \in {"firestore", "memory"} :
          SecondPutStep(tier) =>
              MappingOf(StoresNext, tier) = MappingOf(StoresNow, tier)]_vars

\* A URL was put to the dict a second time, by a call that had scanned the
\* dict before the first put was made.
PutIdempotentWitness ==
    \E j \in Calls :
        /\ IsShorten(hist[j])
        /\ hist[j].arg.val # URL_EMPTY
        /\ StoreOp("memory", "put", "ok") \in Ops(hist[j])
        /\ \E k \in 1..(j - 1) :
              /\ IsShorten(hist[k]) /\ hist[k].arg = hist[j].arg
              /\ StoreOp("memory", "put", "ok") \in Ops(hist[k])


(* ------------------- url_shortener.py, the monolith -------------------- *)
\* url_shortener.py is loaded next to the split, in the same storage mode and
\* with empty stores of its own.  Its handle (line 94) is collection_ref: the
\* two start in the same mode, and neither assigns its handle after import.
\* Its dict is made at import or by the first write (lines 179-181, 185-186)
\* and read only if it exists (line 259): it is the empty dict until written.
InitMonolith ==
    /\ InitCommon
    /\ threaded = FALSE
    /\ gen = NoGen
    /\ mono = [NoMono EXCEPT !.on = TRUE]

\* The next call the monolith is given is the call the split has answered
\* and the monolith has not.
MonoBehind == mono.on /\ Len(mono.hist) < Len(hist)
MonoCall == hist[Len(mono.hist) + 1]

\* Whether Firestore operation op raises in the monolith's run of call r: as
\* it did in the split's run of r, or either way if the split issued no such
\* operation in r.
Raises(r, op) ==
    IF \E o \in RemoteOps(r) : o.op = op
    THEN {\E o \in RemoteOps(r) : o.op = op /\ o.outcome = "error"}
    ELSE BOOLEAN

\* The monolith has answered call r with result, or by raising exc, and its
\* stores are db and coll.
MonoDone(r, result, exc, db, coll) ==
    mono' = [mono EXCEPT !.url_database = db, !.shortened_urls = coll,
                !.hist = Append(@, [op |-> r.op, arg |-> r.arg,
                                    result |-> result, exc |-> exc])]

\* url_shortener.py, shorten_url, lines 120-215.  The log call raises for an
\* argument that is no str (lines 125-129).  With a handle, the query and
\* doc_ref.set stand in one try block (lines 136-171): the id of a document
\* found is returned, and whichever of the two raises, the dict is written
\* (lines 172-182).  Without a handle the dict is written (lines 183-186).
url_shortener_shorten_url ==
    /\ MonoBehind
    /\ IsShorten(MonoCall)
    /\ UNCHANGED <<gen, phase, threaded, collection_ref, url_database,
                   shortened_urls, frame, hist, ncalls>>
    /\ LET r == MonoCall
           long_url == r.arg.val
           short_code == generate_md5_code(long_url, DefaultLength)
           local == DictSet(mono.url_database, short_code, long_url)
       IN
       IF ~IsStr(r.arg)
       THEN MonoDone(r, None,
                     IF r.arg.type = "NoneType" THEN "TypeError" ELSE "AttributeError",
                     mono.url_database, mono.shortened_urls)
       ELSE IF ~Truthy(collection_ref)
       THEN MonoDone(r, Str(short_code), "", local, mono.shortened_urls)
       ELSE \E find_raises \in Raises(r, "find"), set_raises \in Raises(r, "put") :
              LET ids == DocWhere(mono.shortened_urls, long_url) IN
              IF find_raises
              THEN MonoDone(r, Str(short_code), "", local, mono.shortened_urls)
              ELSE IF ids # {}
              THEN \E id \in ids :
                     MonoDone(r, Str(id), "", mono.url_database, mono.shortened_urls)
              ELSE IF set_raises
              THEN MonoDone(r, Str(short_code), "", local, mono.shortened_urls)
              ELSE MonoDone(r, Str(short_code), "", mono.url_database,
                            DocSet(mono.shortened_urls, short_code, long_url))

\* url_shortener.py, get_long_url, lines 217-291.  With a handle, the document
\* is read and its long_url returned as it is (lines 228-241); if there is no
\* document or the read raises, and without a handle, url_database.get is
\* returned if truthy (lines 258-271), else None (line 281).
url_shortener_get_long_url ==
    /\ MonoBehind
    /\ IsResolve(MonoCall)
    /\ UNCHANGED <<gen, phase, threaded, collection_ref, url_database,
                   shortened_urls, frame, hist, ncalls>>
    /\ LET r == MonoCall
           short_code == r.arg.val
           long_url == DictGet(mono.url_database, short_code)
           local == IF Truthy(long_url) THEN long_url ELSE None
       IN
       IF ~Truthy(collection_ref)
       THEN MonoDone(r, local, "", mono.url_database, mono.shortened_urls)
       ELSE \E get_raises \in Raises(r, "get") :
              IF ~get_raises /\ short_code \in DocIds(mono.shortened_urls)
              THEN LET doc == CHOOSE d \in mono.shortened_urls : d.id = short_code IN
                   MonoDone(r, Str(doc.long_url), "",
                            mono.url_database, mono.shortened_urls)
              ELSE MonoDone(r, local, "", mono.url_database, mono.shortened_urls)

\* The split answers a call, then the monolith answers the same call.
NextMonolith ==
    \/ ~MonoBehind /\ Next
    \/ url_shortener_shorten_url
    \/ url_shortener_get_long_url

\* Both implementations, one request at a time.
SpecMonolith == InitMonolith /\ [][NextMonolith]_vars

\* The calls both implementations have answered.
BothAnswered == 1..Len(mono.hist)

\* C30 (the two implementations agree): started in the same storage mode
\* with empty stores and given the same calls under the same pattern of
\* Firestore failures, url_shortener.py returns what core/url_service.py
\* returns, call by call.
ImplementationsAgree ==
    \A i \in BothAnswered :
        /\ mono.hist[i].result = hist[i].result
        /\ mono.hist[i].exc = hist[i].exc


(* -------------------------- puts of one URL ---------------------------- *)
\* shorten_url called with one and the same URL.
shorten_url_same(t) ==
    /\ CanAccept(t)
    /\ UNCHANGED <<mono, gen, phase, threaded, collection_ref, url_database,
                   shortened_urls>>
    /\ \E long_url \in {Str(URL_A)} :
         ShortenCall(t, NewFrame(t, "shorten_url", long_url))

NextPut ==
    \/ initialize_firebase
    \/ \E t \in Threads :
         \/ shorten_url_same(t)
         \/ check_url_exists_remote(t)
         \/ check_url_exists_scan(t)
         \/ store_url_mapping_remote(t)
         \/ store_url_mapping_local(t)

\* Requests on concurrent threads that shorten one URL: every put after the
\* first is a put of a pair that is stored already.
SpecPut == InitConcurrent /\ [][NextPut]_vars
====
